---- MODULE Spec2Model ----
(***************************************************************************)
(* A model of the useOneLakeCatalog hook (src/unnamed/part_000): the       *)
(* catalog build (loadFiles), the preview lifecycle (selectFile,           *)
(* closePreview, the unmount cleanup) and the filter / error commands;     *)
(* and of the message handler of the editor that embeds the application   *)
(* (src/Workload/app/items/IntuigenceApp/IntuigenceAppEditor.tsx).         *)
(* Every setState(updater) is one atomic step on `state`; every await is   *)
(* a suspension point at which other steps may interleave.                 *)
(***************************************************************************)
EXTENDS Integers, Sequences, FiniteSets, TLC

VARIABLES
    state,        \* the useState value (OneLakeFileBrowserState)
    clientRef,    \* clientRef.current is set
    mounted,      \* the component is mounted (setState is honoured)
    selects,      \* one entry per selectFile call: its position and file
    created,      \* number of URL.createObjectURL calls so far (handles 1..created)
    revokes,      \* handle -> number of URL.revokeObjectURL calls on it
    builds,       \* one entry per loadFiles call: its position and locals
    editor,       \* the useState values of IntuigenceAppEditor and the messages it posted
    lastOp        \* the handler step that produced this state, with its observations

vars == <<state, clientRef, mounted, selects, created, revokes, builds, editor, lastOp>>

----------------------------------------------------------------------------
(* Bounds of the model *)

MaxSelects == 3
MaxBuilds == 2
\* In the specification that runs builds and selects together:
HookBuilds == 1
HookSelects == 1
\* The number of message events delivered to the editor:
MaxMessages == 3
\* The longest listing of one container in the specification of the listings:
MaxEntries == 2

----------------------------------------------------------------------------
(* JavaScript values *)

Null == "<null>"                    \* null / undefined of a string-valued slot
NoHandle == 0                       \* a null blobUrl
NoPreview == [isNull |-> TRUE]      \* selectedFile: null

Handles == 1..MaxSelects

----------------------------------------------------------------------------
(* Error helpers *)

WORKLOAD_AUTH_ERROR_MESSAGES ==
    [c \in {0, 1, 2} |->
        CASE c = 0 -> "Authentication is not supported in this environment. Open this workload through the Fabric portal (https://app.fabric.microsoft.com) instead of localhost."
          [] c = 1 -> "User interaction failed during authentication. Please try again."
          [] c = 2 -> "Workload authentication configuration error. Verify that your Entra App registration (FRONTEND_APPID) and redirect URIs are configured correctly."]

\* Shapes of a thrown value. `absent` fields carry Null (strings) or -1 (numbers).
ErrFalsy == [kind |-> "falsy"]
ErrError(m) == [kind |-> "Error", message |-> m]
ErrObject(en, es, m, sc, st) ==
    [kind |-> "object", errorNum |-> en, errorStr |-> es, message |-> m,
     statusCode |-> sc, statusText |-> st]
ErrString(s) == [kind |-> "string", value |-> s]
ErrOther(json) == [kind |-> "other", json |-> json]

getErrorMessage(err) ==
    IF err.kind = "falsy" \/ (err.kind = "string" /\ err.value = "") THEN "Unknown error"
    ELSE IF err.kind = "Error" /\ err.message # "" THEN err.message
    ELSE IF err.kind = "Error" THEN err.message    \* typeof obj.message === "string"
    ELSE IF err.kind = "object" THEN
        IF err.errorNum # -1 /\ err.errorNum \in DOMAIN WORKLOAD_AUTH_ERROR_MESSAGES
            THEN WORKLOAD_AUTH_ERROR_MESSAGES[err.errorNum]
        ELSE IF err.errorStr # Null THEN err.errorStr
        ELSE IF err.message # Null THEN err.message
        ELSE IF err.statusCode # -1 THEN
            "HTTP " \o ToString(err.statusCode) \o ": "
                \o (IF err.statusText \in {Null, ""} THEN "Request failed" ELSE err.statusText)
        ELSE "{}"
    ELSE IF err.kind = "string" THEN err.value
    ELSE err.json

\* The failures the external calls are let to produce.
Errors ==
    { ErrError("Network request failed"),
      ErrObject(2, Null, Null, -1, Null),
      ErrObject(-1, Null, Null, 403, Null) }

----------------------------------------------------------------------------
(* State *)

InitialState ==
    [files |-> <<>>, selectedFile |-> NoPreview, loading |-> FALSE,
     error |-> Null, workspaceId |-> Null, searchQuery |-> ""]

SampleFile(name) ==
    [fullPath |-> "ws1/L1/Files/" \o name, name |-> name, relativePath |-> name,
     size |-> [nan |-> FALSE, n |-> 1, d |-> 1], lastModified |-> "", lakehouseName |-> "Lake1", lakehouseId |-> "L1"]

\* The files a caller passes to selectFile.
SelectableFiles == { SampleFile("a.pdf"), SampleFile("b.png") }

Live == { h \in 1..created : revokes[h] = 0 }

HasBlob(st) == st.selectedFile # NoPreview /\ st.selectedFile.blobUrl # NoHandle

----------------------------------------------------------------------------
(* Resource handles: URL.revokeObjectURL(h) *)

Revoke(h) == revokes' = [revokes EXCEPT ![h] = @ + 1]

----------------------------------------------------------------------------
(* File selection & preview *)

\* The handle the updater of selectFile / closePreview revokes (NoHandle: none).
BlobToRevoke(prev) == IF HasBlob(prev) THEN prev.selectedFile.blobUrl ELSE NoHandle

\* The loading updater of selectFile keeping the previous blob URL in the preview.
SelectStartKeepsHandle(prev, file) ==
    [prev EXCEPT !.selectedFile =
        [file |-> file, blobUrl |-> BlobToRevoke(prev), loading |-> TRUE, error |-> Null]]

SelectStartUpdate(prev, file) ==
    [prev EXCEPT !.selectedFile =
        [file |-> file, blobUrl |-> NoHandle, loading |-> TRUE, error |-> Null]]

\* The success updater of selectFile leaving the loading flag set.
SelectSuccessStaysLoading(prev, file, blobUrl) ==
    [prev EXCEPT !.selectedFile =
        [file |-> file, blobUrl |-> blobUrl, loading |-> TRUE, error |-> Null]]

SelectSuccessUpdate(prev, file, blobUrl) ==
    [prev EXCEPT !.selectedFile =
        [file |-> file, blobUrl |-> blobUrl, loading |-> FALSE, error |-> Null]]

\* A fetch failure that escapes without a state update.
SelectFailureEscapes(prev, file, err) == prev

SelectFailureUpdate(prev, file, err) ==
    [prev EXCEPT !.selectedFile =
        [file |-> file, blobUrl |-> NoHandle, loading |-> FALSE,
         error |-> "Failed to load file: " \o getErrorMessage(err)]]

\* closePreview without the reset of selectedFile.
ClosePreviewKeepsPreview(prev) == prev

ClosePreviewUpdate(prev) == [prev EXCEPT !.selectedFile = NoPreview]

IdleSelect == [pc |-> "idle", file |-> SampleFile("a.pdf")]

FreeSelect == { s \in DOMAIN selects : selects[s].pc = "idle" }

\* selectFile(file) up to its await: the revoke-and-reset updater, then the fetch starts.
SelectFile(file) ==
    /\ mounted
    /\ FreeSelect # {}
    /\ LET s == CHOOSE x \in FreeSelect : \A y \in FreeSelect : x <= y
           h == BlobToRevoke(state)
       IN IF ~clientRef
          THEN /\ UNCHANGED <<state, revokes, selects>>
               /\ lastOp' = [op |-> "selectNoClient"]
          ELSE /\ IF h # NoHandle THEN Revoke(h) ELSE UNCHANGED revokes
               /\ state' = SelectStartUpdate(state, file)
               /\ selects' = [selects EXCEPT ![s] = [pc |-> "fetch", file |-> file]]
               /\ lastOp' = [op |-> "select", file |-> file, released |-> h]
    /\ UNCHANGED <<clientRef, mounted, created, builds, editor>>

\* readFileAsBase64 resolved and decoded: the blob URL is created, then installed.
SelectSuccess(s) ==
    /\ selects[s].pc = "fetch"
    /\ created' = created + 1
    /\ selects' = [selects EXCEPT ![s].pc = "done"]
    /\ state' = IF mounted
                THEN SelectSuccessUpdate(state, selects[s].file, created + 1)
                ELSE state
    /\ lastOp' = [op |-> "selectSuccess", file |-> selects[s].file,
                  handle |-> created + 1, replaced |-> BlobToRevoke(state)]
    /\ UNCHANGED <<clientRef, mounted, revokes, builds, editor>>

\* readFileAsBase64 rejected, or atob threw on the content.
SelectFailure(s, err) ==
    /\ selects[s].pc = "fetch"
    /\ selects' = [selects EXCEPT ![s].pc = "done"]
    /\ state' = IF mounted THEN SelectFailureUpdate(state, selects[s].file, err) ELSE state
    /\ lastOp' = [op |-> "selectFailure", file |-> selects[s].file,
                  replaced |-> BlobToRevoke(state)]
    /\ UNCHANGED <<clientRef, mounted, created, revokes, builds, editor>>

ClosePreview ==
    /\ mounted
    /\ LET h == BlobToRevoke(state)
       IN /\ IF h # NoHandle THEN Revoke(h) ELSE UNCHANGED revokes
          /\ state' = ClosePreviewUpdate(state)
          /\ lastOp' = [op |-> "close", released |-> h]
    /\ UNCHANGED <<clientRef, mounted, selects, created, builds, editor>>

\* The state the unmount cleanup reads: the effect has no dependencies, so its
\* closure holds the state of the first render.
CleanupState == InitialState

Unmount ==
    /\ mounted
    /\ mounted' = FALSE
    /\ LET h == BlobToRevoke(CleanupState)
       IN /\ IF h # NoHandle THEN Revoke(h) ELSE UNCHANGED revokes
          /\ lastOp' = [op |-> "unmount", released |-> h,
                        held |-> BlobToRevoke(state)]
    /\ UNCHANGED <<state, clientRef, selects, created, builds, editor>>

\* The client-initialising effect of the first commit.
InitClient ==
    /\ mounted
    /\ ~clientRef
    /\ clientRef' = TRUE
    /\ lastOp' = [op |-> "initClient"]
    /\ UNCHANGED <<state, mounted, selects, created, revokes, builds, editor>>

----------------------------------------------------------------------------
(* String helpers of the catalog build *)

StartsWith(s, prefix) ==
    Len(s) >= Len(prefix) /\ SubSeq(s, 1, Len(prefix)) = prefix

Substring(s, from) == SubSeq(s, from + 1, Len(s))     \* s.substring(from)

\* s.split("/").pop()
LastSegment(s) ==
    LET slashes == { i \in 1..Len(s) : SubSeq(s, i, i) = "/" }
    IN IF slashes = {} THEN s
       ELSE Substring(s, CHOOSE i \in slashes : \A j \in slashes : j <= i)

Digits == <<"0", "1", "2", "3", "4", "5", "6", "7", "8", "9">>

IsDigits(s) ==
    Len(s) > 0 /\ \A i \in 1..Len(s) : \E d \in 1..10 : SubSeq(s, i, i) = Digits[d]

RECURSIVE DigitsValue(_)
DigitsValue(s) ==
    IF Len(s) = 0 THEN 0
    ELSE DigitsValue(SubSeq(s, 1, Len(s) - 1)) * 10
            + ((CHOOSE d \in 1..10 : SubSeq(s, Len(s), Len(s)) = Digits[d]) - 1)

RECURSIVE Pow10(_)
Pow10(k) == IF k = 0 THEN 1 ELSE 10 * Pow10(k - 1)

\* A JavaScript number: NaN, or the decimal fraction n / d (d a power of ten).
NaN == [nan |-> TRUE, n |-> 0, d |-> 1]
Num(n, d) == [nan |-> FALSE, n |-> n, d |-> d]

\* Number(raw) for a raw contentLength: Null is an absent property (undefined),
\* otherwise the decimal string is parsed ("" is 0, anything else malformed is NaN).
Number(raw) ==
    IF raw = Null THEN NaN
    ELSE IF raw = "" THEN Num(0, 1)
    ELSE LET neg == StartsWith(raw, "-")
             body == IF neg THEN Substring(raw, 1) ELSE raw
             dots == { i \in 1..Len(body) : SubSeq(body, i, i) = "." }
             sign == IF neg THEN -1 ELSE 1
         IN IF dots = {} THEN
                IF IsDigits(body) THEN Num(sign * DigitsValue(body), 1) ELSE NaN
            ELSE IF Cardinality(dots) > 1 THEN NaN
            ELSE LET dot == CHOOSE i \in dots : TRUE
                     ip == SubSeq(body, 1, dot - 1)
                     fp == Substring(body, dot)
                 IN IF (ip = "" \/ IsDigits(ip)) /\ (fp = "" \/ IsDigits(fp))
                       /\ ~(ip = "" /\ fp = "")
                    THEN Num(sign * (DigitsValue(ip) * Pow10(Len(fp)) + DigitsValue(fp)),
                             Pow10(Len(fp)))
                    ELSE NaN

\* Number(x) || 0
NumberOrZero(raw) ==
    LET v == Number(raw) IN IF v.nan \/ v.n = 0 THEN Num(0, 1) ELSE v

\* String(p.isDirectory): the flag is a boolean, a string, or absent.
Undefined == [t |-> "undefined"]
JsBool(b) == [t |-> "boolean", b |-> b]
JsStr(s) == [t |-> "string", s |-> s]

String(v) ==
    IF v.t = "undefined" THEN "undefined"
    ELSE IF v.t = "boolean" THEN (IF v.b THEN "true" ELSE "false")
    ELSE v.s

\* OneLakeStorageClient.getPath(workspaceId, itemId, fileName)
getPath(workspaceId, itemId, fileName) ==
    workspaceId \o "/" \o itemId \o "/" \o fileName

----------------------------------------------------------------------------
(* The catalog build: loadFiles *)

\* One listing entry -> one OneLakeFile (the body of the inner loop).
ToOneLakeFile(workspaceId, lakehouse, p) ==
    LET fullPath == getPath(workspaceId, lakehouse.id,
                        IF StartsWith(p.name, lakehouse.id \o "/")
                        THEN Substring(p.name, Len(lakehouse.id) + 1)
                        ELSE p.name)
        filesPrefix == lakehouse.id \o "/Files/"
        relativePath == IF StartsWith(p.name, filesPrefix)
                        THEN Substring(p.name, Len(filesPrefix))
                        ELSE p.name
        lastSeg == LastSegment(relativePath)
        fileName == IF lastSeg = "" THEN relativePath ELSE lastSeg
    IN [fullPath |-> fullPath, name |-> fileName, relativePath |-> relativePath,
        size |-> NumberOrZero(p.contentLength),
        lastModified |-> IF p.lastModified = Null THEN "" ELSE p.lastModified,
        lakehouseName |-> lakehouse.displayName, lakehouseId |-> lakehouse.id]

\* A directory skip that recognises only the boolean flag.
IsDirectoryEntryBooleanOnly(p) == p.isDirectory = JsBool(TRUE)

IsDirectoryEntry(p) == String(p.isDirectory) = "true"

\* The records one container's listing pushes onto allFiles, in listing order.
RECURSIVE FlattenPaths(_, _, _)
FlattenPaths(workspaceId, lakehouse, paths) ==
    IF paths = <<>> THEN <<>>
    ELSE (IF IsDirectoryEntry(Head(paths)) THEN <<>>
          ELSE <<ToOneLakeFile(workspaceId, lakehouse, Head(paths))>>)
         \o FlattenPaths(workspaceId, lakehouse, Tail(paths))

\* allItems.filter(item => item.type === "Lakehouse")
RECURSIVE FilterLakehouses(_)
FilterLakehouses(allItems) ==
    IF allItems = <<>> THEN <<>>
    ELSE (IF Head(allItems).type = "Lakehouse" THEN <<Head(allItems)>> ELSE <<>>)
         \o FilterLakehouses(Tail(allItems))

\* itemResult?.item?.workspaceId || null
WorkspaceOfItem(itemResult) == IF itemResult \in {Null, ""} THEN Null ELSE itemResult

\* workspaces.length > 0 ? workspaces[0].id : (unchanged null); falsy ids stay unresolved
FirstWorkspace(workspaces) ==
    IF Len(workspaces) > 0 /\ workspaces[1].id # "" THEN workspaces[1].id ELSE Null

NoWorkspaceMessage ==
    "No workspace found. Please ensure you have access to a Fabric workspace."
NoLakehouseMessage ==
    "No Lakehouses found in this workspace. Create a Lakehouse and upload files to see them here."

LoadStartUpdate(prev) == [prev EXCEPT !.loading = TRUE, !.error = Null]

\* A no-workspace termination that also blanks the listing.
NoWorkspaceUpdateClearsFiles(prev) ==
    [prev EXCEPT !.loading = FALSE, !.error = NoWorkspaceMessage, !.files = <<>>]

NoWorkspaceUpdate(prev) == [prev EXCEPT !.loading = FALSE, !.error = NoWorkspaceMessage]

\* A no-Lakehouse termination that keeps the previous listing.
NoLakehouseUpdateKeepsFiles(prev, workspaceId) ==
    [prev EXCEPT !.loading = FALSE, !.workspaceId = workspaceId,
                 !.error = NoLakehouseMessage]

NoLakehouseUpdate(prev, workspaceId) ==
    [prev EXCEPT !.loading = FALSE, !.workspaceId = workspaceId, !.files = <<>>,
                 !.error = NoLakehouseMessage]

\* A commit that also closes the preview.
CommitUpdateClosesPreview(prev, allFiles, workspaceId) ==
    [prev EXCEPT !.files = allFiles, !.workspaceId = workspaceId, !.loading = FALSE,
                 !.selectedFile = NoPreview]

\* A commit that forgets the workspace the build resolved.
CommitUpdateKeepsWorkspace(prev, allFiles, workspaceId) ==
    [prev EXCEPT !.files = allFiles, !.loading = FALSE]

\* A commit that adds the build's records to the listing on display.
CommitUpdateAppends(prev, allFiles, workspaceId) ==
    [prev EXCEPT !.files = prev.files \o allFiles, !.workspaceId = workspaceId,
                 !.loading = FALSE]

CommitUpdate(prev, allFiles, workspaceId) ==
    [prev EXCEPT !.files = allFiles, !.workspaceId = workspaceId, !.loading = FALSE]

\* A failure path that leaves the loading flag up.
FailureUpdateLeavesLoading(prev, err) == [prev EXCEPT !.error = getErrorMessage(err)]

\* A failure path that also blanks the listing.
FailureUpdateClearsFiles(prev, err) ==
    [prev EXCEPT !.loading = FALSE, !.error = getErrorMessage(err), !.files = <<>>]

FailureUpdate(prev, err) ==
    [prev EXCEPT !.loading = FALSE, !.error = getErrorMessage(err)]

\* setState(updater): dropped once the component has unmounted.
SetState(next) == state' = IF mounted THEN next ELSE state

(* The environment of a build *)
Lakehouse(id, name) == [id |-> id, displayName |-> name, type |-> "Lakehouse"]
Notebook == [id |-> "N1", displayName |-> "Notes", type |-> "Notebook"]

ItemLists ==
    { <<Notebook>>,
      <<Lakehouse("L1", "Lake1"), Notebook, Lakehouse("L2", "Lake2")>> }

WorkspaceLists == { <<>>, <<[id |-> "ws1"], [id |-> "ws2"]>> }

ItemResults == { Null, "ws2" }

Entry(name, isDir, len, mod) ==
    [name |-> name, isDirectory |-> isDir, contentLength |-> len, lastModified |-> mod]

PathLists(lakehouse) ==
    { <<Entry(lakehouse.id \o "/Files/sub", JsBool(TRUE), Null, Null),
        Entry(lakehouse.id \o "/Files/sub/doc.pdf", JsBool(FALSE), "120", "2024-01-01"),
        Entry(lakehouse.id \o "/Files/a.png", Undefined, "not-a-number", Null)>> }

\* A build's locals and what it has observed. itemWorkspaceId is workspaceId as step 1
\* left it (Null while getItem is pending, when it threw or carried no id); workspaces and
\* allItems hold the returned list once the call has returned (<<>> before);
\* results holds, per container attempted, whether its listing returned and the
\* listing; calls counts the external calls issued; startFiles and
\* startWorkspaceId are the state the build started from.
NewBuild(hasItem, prev) ==
    [pc |-> IF hasItem THEN "getItem" ELSE "getAllWorkspaces",
     hasItem |-> hasItem, itemWorkspaceId |-> Null, workspaces |-> <<>>,
     allItems |-> <<>>, workspaceId |-> Null, lakehouses |-> <<>>, allFiles |-> <<>>,
     results |-> <<>>, outcome |-> "running",
     calls |-> [getItem |-> IF hasItem THEN 1 ELSE 0,
                getAllWorkspaces |-> IF hasItem THEN 0 ELSE 1,
                getAllItems |-> 0, getPathMetadata |-> 0],
     startFiles |-> prev.files, startWorkspaceId |-> prev.workspaceId]

Finish(bld, outcome) == [bld EXCEPT !.pc = "done", !.outcome = outcome]

CallGetAllWorkspaces(bld) ==
    [bld EXCEPT !.pc = "getAllWorkspaces", !.calls.getAllWorkspaces = @ + 1]

CallGetAllItems(bld, workspaceId) ==
    [bld EXCEPT !.pc = "getAllItems", !.workspaceId = workspaceId,
                !.calls.getAllItems = @ + 1]

CallGetPathMetadata(bld) ==
    [bld EXCEPT !.pc = "getPathMetadata", !.calls.getPathMetadata = @ + 1]

\* loadFiles() up to its first await.
LoadFiles(hasItem) ==
    /\ mounted
    /\ Len(builds) < MaxBuilds
    /\ IF ~clientRef
       THEN /\ UNCHANGED <<state, builds>>
            /\ lastOp' = [op |-> "loadNoClient"]
       ELSE /\ SetState(LoadStartUpdate(state))
            /\ builds' = Append(builds, NewBuild(hasItem, state))
            /\ lastOp' = [op |-> "loadStart", b |-> Len(builds) + 1]
    /\ UNCHANGED <<clientRef, mounted, selects, created, revokes, editor>>

\* A resolution step that requests the workspace list whatever the item gave.
AfterItemAlwaysFallsBack(bld, workspaceId) == CallGetAllWorkspaces(bld)

\* After workspace resolution from the item: fall back, or go on to the items.
AfterItem(bld, workspaceId) ==
    IF workspaceId = Null THEN CallGetAllWorkspaces(bld)
    ELSE CallGetAllItems(bld, workspaceId)

GetItemReturns(b, itemResult) ==
    /\ builds[b].pc = "getItem"
    /\ builds' = [builds EXCEPT ![b] =
            AfterItem([@ EXCEPT !.itemWorkspaceId = WorkspaceOfItem(itemResult)],
                      WorkspaceOfItem(itemResult))]
    /\ lastOp' = [op |-> "getItemReturns", b |-> b]
    /\ UNCHANGED <<state, clientRef, mounted, selects, created, revokes, editor>>

\* The inner catch: the failure is logged and the build goes on unresolved.
GetItemThrows(b) ==
    /\ builds[b].pc = "getItem"
    /\ builds' = [builds EXCEPT ![b] = AfterItem(@, Null)]
    /\ lastOp' = [op |-> "getItemThrows", b |-> b, before |-> state]
    /\ UNCHANGED <<state, clientRef, mounted, selects, created, revokes, editor>>

GetAllWorkspacesReturns(b, workspaces) ==
    /\ builds[b].pc = "getAllWorkspaces"
    /\ LET workspaceId == FirstWorkspace(workspaces)
           bld == [builds[b] EXCEPT !.workspaces = <<workspaces>>]
       IN IF workspaceId = Null
          THEN /\ SetState(NoWorkspaceUpdate(state))
               /\ builds' = [builds EXCEPT ![b] = Finish(bld, "noWorkspace")]
               /\ lastOp' = [op |-> "noWorkspace", b |-> b, before |-> state]
          ELSE /\ builds' = [builds EXCEPT ![b] = CallGetAllItems(bld, workspaceId)]
               /\ lastOp' = [op |-> "getAllWorkspacesReturns", b |-> b]
               /\ UNCHANGED state
    /\ UNCHANGED <<clientRef, mounted, selects, created, revokes, editor>>

\* The outer catch, entered from getAllWorkspaces or getAllItems.
TopLevelFailure(b, err) ==
    /\ SetState(FailureUpdate(state, err))
    /\ builds' = [builds EXCEPT ![b] = Finish(@, "failed")]
    /\ lastOp' = [op |-> "failed", b |-> b, before |-> state]
    /\ UNCHANGED <<clientRef, mounted, selects, created, revokes, editor>>

GetAllWorkspacesThrows(b, err) ==
    /\ builds[b].pc = "getAllWorkspaces"
    /\ TopLevelFailure(b, err)

GetAllItemsThrows(b, err) ==
    /\ builds[b].pc = "getAllItems"
    /\ TopLevelFailure(b, err)

GetAllItemsReturns(b, allItems) ==
    /\ builds[b].pc = "getAllItems"
    /\ LET lakehouses == FilterLakehouses(allItems)
           bld == [builds[b] EXCEPT !.allItems = <<allItems>>, !.lakehouses = lakehouses]
       IN IF Len(lakehouses) = 0
          THEN /\ SetState(NoLakehouseUpdate(state, bld.workspaceId))
               /\ builds' = [builds EXCEPT ![b] = Finish(bld, "noLakehouse")]
               /\ lastOp' = [op |-> "noLakehouse", b |-> b, before |-> state]
          ELSE /\ builds' = [builds EXCEPT ![b] = CallGetPathMetadata(bld)]
               /\ lastOp' = [op |-> "getAllItemsReturns", b |-> b]
               /\ UNCHANGED state
    /\ UNCHANGED <<clientRef, mounted, selects, created, revokes, editor>>

\* The container being listed.
Current(bld) == bld.lakehouses[Len(bld.results) + 1]

\* A push that puts a container's records in front of the accumulated list.
PushListingPrepends(bld, paths) ==
    FlattenPaths(bld.workspaceId, Current(bld), paths) \o bld.allFiles

\* allFiles after a container's listing returned / after it failed.
PushListing(bld, paths) ==
    bld.allFiles \o FlattenPaths(bld.workspaceId, Current(bld), paths)

\* A per-container catch that restarts the accumulated list.
SkipContainerDropsFiles(bld) == <<>>

SkipContainer(bld) == bld.allFiles

Listed(paths) == [ok |-> TRUE, paths |-> paths]
Failed == [ok |-> FALSE, paths |-> <<>>]

\* The end of one loop iteration: list the next container, or commit.
AfterContainer(b, allFiles, result) ==
    LET bld == [builds[b] EXCEPT !.allFiles = allFiles, !.results = Append(@, result)]
    IN IF Len(bld.results) < Len(bld.lakehouses)
       THEN /\ builds' = [builds EXCEPT ![b] = CallGetPathMetadata(bld)]
            /\ lastOp' = [op |-> "containerDone", b |-> b, before |-> state,
                          skipped |-> ~result.ok]
            /\ UNCHANGED state
       ELSE /\ SetState(CommitUpdate(state, allFiles, bld.workspaceId))
            /\ builds' = [builds EXCEPT ![b] = Finish(bld, "commit")]
            /\ lastOp' = [op |-> "commit", b |-> b, before |-> state,
                          skipped |-> ~result.ok]

\* getPathMetadata resolved with metadata.paths = paths.
GetPathMetadataListed(b, paths) ==
    /\ builds[b].pc = "getPathMetadata"
    /\ AfterContainer(b, PushListing(builds[b], paths), Listed(paths))
    /\ UNCHANGED <<clientRef, mounted, selects, created, revokes, editor>>

GetPathMetadataReturns(b) ==
    /\ builds[b].pc = "getPathMetadata"
    /\ \E paths \in PathLists(Current(builds[b])) : GetPathMetadataListed(b, paths)

\* The per-container catch: logged, the container is skipped.
GetPathMetadataThrows(b) ==
    /\ builds[b].pc = "getPathMetadata"
    /\ AfterContainer(b, SkipContainer(builds[b]), Failed)
    /\ UNCHANGED <<clientRef, mounted, selects, created, revokes, editor>>

----------------------------------------------------------------------------
(* The embedding editor: IntuigenceAppEditor *)

\* isLoading, error, fabricContext and appReady are the useState values; posted
\* holds the messages sent to the iframe, received counts the message events.
NoContext == [isNull |-> TRUE]

InitialEditor ==
    [isLoading |-> TRUE, error |-> Null, fabricContext |-> NoContext, appReady |-> FALSE,
     posted |-> <<>>, received |-> 0]

----------------------------------------------------------------------------

Init ==
    /\ state = InitialState
    /\ clientRef = FALSE
    /\ mounted = TRUE
    /\ selects = [s \in 1..MaxSelects |-> IdleSelect]
    /\ created = 0
    /\ revokes = [h \in Handles |-> 0]
    /\ builds = <<>>
    /\ editor = InitialEditor
    /\ lastOp = [op |-> "init"]

PreviewNext ==
    \/ InitClient
    \/ \E f \in SelectableFiles : SelectFile(f)
    \/ \E s \in DOMAIN selects : SelectSuccess(s)
    \/ \E s \in DOMAIN selects, e \in Errors : SelectFailure(s, e)
    \/ ClosePreview
    \/ Unmount

PreviewSpec == Init /\ [][PreviewNext]_vars

CatalogNext ==
    \/ InitClient
    \/ \E hasItem \in BOOLEAN : LoadFiles(hasItem)
    \/ \E b \in DOMAIN builds, r \in ItemResults : GetItemReturns(b, r)
    \/ \E b \in DOMAIN builds : GetItemThrows(b)
    \/ \E b \in DOMAIN builds, w \in WorkspaceLists : GetAllWorkspacesReturns(b, w)
    \/ \E b \in DOMAIN builds, e \in Errors : GetAllWorkspacesThrows(b, e)
    \/ \E b \in DOMAIN builds, i \in ItemLists : GetAllItemsReturns(b, i)
    \/ \E b \in DOMAIN builds, e \in Errors : GetAllItemsThrows(b, e)
    \/ \E b \in DOMAIN builds : GetPathMetadataReturns(b)
    \/ \E b \in DOMAIN builds : GetPathMetadataThrows(b)

CatalogSpec == Init /\ [][CatalogNext]_vars

(* Builds and selects together: fewer of each, started with an item id, and one *)
(* failure value for the calls that fail.                                        *)
Started == { s \in DOMAIN selects : selects[s].pc # "idle" }

HookErrors == { ErrError("Network request failed") }

\* Any settling of the external call build b is waiting for.
BuildSettles(b) ==
    \/ \E r \in ItemResults : GetItemReturns(b, r)
    \/ GetItemThrows(b)
    \/ \E w \in WorkspaceLists : GetAllWorkspacesReturns(b, w)
    \/ \E e \in HookErrors : GetAllWorkspacesThrows(b, e)
    \/ \E i \in ItemLists : GetAllItemsReturns(b, i)
    \/ \E e \in HookErrors : GetAllItemsThrows(b, e)
    \/ GetPathMetadataThrows(b)
    \/ GetPathMetadataReturns(b)

\* Any settling of the fetch of select s.
SelectSettles(s) ==
    \/ SelectSuccess(s)
    \/ \E e \in HookErrors : SelectFailure(s, e)

HookLoadFiles == Len(builds) < HookBuilds /\ LoadFiles(TRUE)

HookSelectFile(f) == Cardinality(Started) < HookSelects /\ SelectFile(f)

HookNext ==
    \/ InitClient
    \/ HookLoadFiles
    \/ \E b \in DOMAIN builds : BuildSettles(b)
    \/ \E f \in SelectableFiles : HookSelectFile(f)
    \/ \E s \in DOMAIN selects : SelectSettles(s)
    \/ ClosePreview

HookSpec == Init /\ [][HookNext]_vars

\* Some external call that is awaited returns or fails.
Settles ==
    \/ \E b \in DOMAIN builds : BuildSettles(b)
    \/ \E s \in DOMAIN selects : SelectSettles(s)

\* An awaited external call does not stay pending for ever.
HookFairness == WF_vars(Settles)

FairHookSpec == HookSpec /\ HookFairness

(* One build over two containers, with the listings drawn from a wider set: entries *)
(* flagged as directories in each way, names without the container prefix, a name    *)
(* ending with "/", raw lengths of each kind, and repeated entries.                  *)
ListingEntries(lakehouse) ==
    { Entry(lakehouse.id \o "/Files/sub", JsBool(TRUE), Null, Null),
      Entry(lakehouse.id \o "/Files/dir", JsStr("true"), "0", Null),
      Entry(lakehouse.id \o "/Files/sub/doc.pdf", JsBool(FALSE), "120", "2024-01-01"),
      Entry(lakehouse.id \o "/Files/a.png", Undefined, "not-a-number", Null),
      Entry("other/b.txt", JsStr("false"), "1.5", Null),
      Entry(lakehouse.id \o "/Files/sub/", JsBool(FALSE), "-5", Null) }

RECURSIVE SeqsUpTo(_, _)
\* The sequences over S of length at most n.
SeqsUpTo(S, n) ==
    IF n = 0 THEN {<<>>}
    ELSE LET shorter == SeqsUpTo(S, n - 1)
         IN shorter \cup { Append(q, e) : q \in shorter, e \in S }

ListingPathLists(lakehouse) == SeqsUpTo(ListingEntries(lakehouse), MaxEntries)

ListingLoadFiles == builds = <<>> /\ LoadFiles(FALSE)

ListingNext ==
    \/ InitClient
    \/ ListingLoadFiles
    \/ \E b \in DOMAIN builds :
            GetAllWorkspacesReturns(b, <<[id |-> "ws1"], [id |-> "ws2"]>>)
    \/ \E b \in DOMAIN builds :
            GetAllItemsReturns(b, <<Lakehouse("L1", "Lake1"), Notebook,
                                    Lakehouse("L2", "Lake2")>>)
    \/ \E b \in DOMAIN builds :
            /\ builds[b].pc = "getPathMetadata"
            /\ \E paths \in ListingPathLists(Current(builds[b])) :
                    GetPathMetadataListed(b, paths)

ListingSpec == Init /\ [][ListingNext]_vars

(* The search query and the filtered view *)

UpperCase == "ABCDEFGHIJKLMNOPQRSTUVWXYZ"
LowerCase == "abcdefghijklmnopqrstuvwxyz"

\* c.toLowerCase() for a one-character string.
LowerChar(c) ==
    LET at == { i \in 1..Len(UpperCase) : SubSeq(UpperCase, i, i) = c }
    IN IF at = {} THEN c ELSE LET i == CHOOSE j \in at : TRUE IN SubSeq(LowerCase, i, i)

RECURSIVE ToLowerCase(_)
\* s.toLowerCase()
ToLowerCase(s) ==
    IF Len(s) = 0 THEN ""
    ELSE ToLowerCase(SubSeq(s, 1, Len(s) - 1)) \o LowerChar(SubSeq(s, Len(s), Len(s)))

\* s.includes(q)
Includes(s, q) ==
    \E i \in 0..(Len(s) - Len(q)) : SubSeq(s, i + 1, i + Len(q)) = q

\* A filter that looks at the file name only.
MatchesSearchNameOnly(f, query) == Includes(ToLowerCase(f.name), ToLowerCase(query))

\* The predicate of state.files.filter.
MatchesSearch(f, query) ==
    \/ Includes(ToLowerCase(f.name), ToLowerCase(query))
    \/ Includes(ToLowerCase(f.lakehouseName), ToLowerCase(query))

\* filteredFiles: the list the hook returns for a state.
filteredFiles(st) ==
    IF st.searchQuery # ""
    THEN LET Keep(f) == MatchesSearch(f, st.searchQuery) IN SelectSeq(st.files, Keep)
    ELSE st.files

\* A query update that also closes the preview.
SearchQueryUpdateClosesPreview(prev, query) ==
    [prev EXCEPT !.searchQuery = query, !.selectedFile = NoPreview]

SearchQueryUpdate(prev, query) == [prev EXCEPT !.searchQuery = query]

SetSearchQuery(query) ==
    /\ mounted
    /\ SetState(SearchQueryUpdate(state, query))
    /\ lastOp' = [op |-> "setSearchQuery", query |-> query, before |-> state]
    /\ UNCHANGED <<clientRef, mounted, selects, created, revokes, builds, editor>>

\* A clearError that also raises the loading flag, as a retry would.
ClearErrorUpdateSetsLoading(prev) == [prev EXCEPT !.error = Null, !.loading = TRUE]

ClearErrorUpdate(prev) == [prev EXCEPT !.error = Null]

ClearError ==
    /\ mounted
    /\ SetState(ClearErrorUpdate(state))
    /\ lastOp' = [op |-> "clearError", before |-> state]
    /\ UNCHANGED <<clientRef, mounted, selects, created, revokes, builds, editor>>

\* Queries typed into the search box: none, part of a name in another case, a
\* container name in another case, and one that matches nothing.
Queries == { "", "DOC", "lake2", "zip" }

\* One build with the search box in use.
FilterNext ==
    \/ InitClient
    \/ ListingLoadFiles
    \/ \E b \in DOMAIN builds :
            GetAllWorkspacesReturns(b, <<[id |-> "ws1"], [id |-> "ws2"]>>)
    \/ \E b \in DOMAIN builds :
            GetAllItemsReturns(b, <<Lakehouse("L1", "Lake1"), Notebook,
                                    Lakehouse("L2", "Lake2")>>)
    \/ \E b \in DOMAIN builds : GetPathMetadataReturns(b)
    \/ \E b \in DOMAIN builds : GetPathMetadataThrows(b)
    \/ \E q \in Queries : SetSearchQuery(q)

FilterSpec == Init /\ [][FilterNext]_vars

\* Builds and selects together with the search box in use.
ViewQueries == { "", "DOC" }

QueryNext ==
    \/ HookNext
    \/ \E q \in ViewQueries : SetSearchQuery(q)

QuerySpec == Init /\ [][QueryNext]_vars

\* Builds and selects together with clearError in use.
ClearErrorNext ==
    \/ HookNext
    \/ ClearError

ClearErrorSpec == Init /\ [][ClearErrorNext]_vars

----------------------------------------------------------------------------
(* The embedding editor: its context, its iframe and handleMessage *)

HookVars == <<state, clientRef, mounted, selects, created, revokes, builds>>

baseUrl == "https://app.dev.intuigence.ai"

allowedOrigins == { "intuigence.ai", "localhost", "127.0.0.1" }

\* allowedOrigins.some(origin => event.origin.includes(origin))
isAllowedOrigin(origin) == \E o \in allowedOrigins : Includes(origin, o)

\* The iframe is rendered (and iframeRef.current set) once the context has loaded
\* and while no error is shown.
IframeRendered(ed) == ~ed.isLoading /\ ed.error = Null

\* The contexts loadFabricContext can build: with and without the item's workspace.
FabricContexts ==
    { [workspaceId |-> "", itemId |-> "item1"],
      [workspaceId |-> "ws1", itemId |-> "item1"] }

\* loadFabricContext ran to its end.
ContextLoaded(context) ==
    /\ editor.isLoading
    /\ editor' = [editor EXCEPT !.fabricContext = context, !.isLoading = FALSE]
    /\ lastOp' = [op |-> "contextLoaded"]
    /\ UNCHANGED HookVars

handleIframeLoad ==
    /\ IframeRendered(editor)
    /\ editor' = [editor EXCEPT !.appReady = TRUE]
    /\ lastOp' = [op |-> "iframeLoad"]
    /\ UNCHANGED HookVars

handleIframeError ==
    /\ IframeRendered(editor)
    /\ editor' = [editor EXCEPT !.error = "Failed to load IntuigenceAI application"]
    /\ lastOp' = [op |-> "iframeError"]
    /\ UNCHANGED HookVars

\* event.data of a message: absent, or a type with or without a payload message.
MessageData ==
    { [type |-> Null, message |-> Null],
      [type |-> "APP_READY", message |-> Null],
      [type |-> "APP_ERROR", message |-> Null],
      [type |-> "APP_ERROR", message |-> "boom"],
      [type |-> "NAVIGATION_REQUEST", message |-> Null] }

\* event.origin of a message: the application, the development hosts, and two
\* foreign sites, one of which carries an allowed name inside its host name.
MessageOrigins ==
    { "https://app.dev.intuigence.ai", "http://localhost:3000", "http://127.0.0.1:3000",
      "https://evil.example", "https://intuigence.ai.evil.example" }

\* The effect of an accepted message on the editor.
AcceptMessage(ed, data) ==
    IF data.type = "APP_READY"
    THEN [ed EXCEPT !.appReady = TRUE,
                    !.posted = IF ed.fabricContext # NoContext /\ IframeRendered(ed)
                               THEN Append(@, [type |-> "FABRIC_CONTEXT",
                                               payload |-> ed.fabricContext,
                                               targetOrigin |-> baseUrl])
                               ELSE @]
    ELSE IF data.type = "APP_ERROR"
    THEN [ed EXCEPT !.error = IF data.message \in {Null, ""} THEN "Application error"
                              ELSE data.message]
    ELSE ed

handleMessage(origin, data) ==
    /\ editor.received < MaxMessages
    /\ LET counted == [editor EXCEPT !.received = @ + 1]
       IN editor' = IF isAllowedOrigin(origin) THEN AcceptMessage(counted, data)
                    ELSE counted
    /\ lastOp' = [op |-> "message", origin |-> origin, data |-> data, before |-> editor]
    /\ UNCHANGED HookVars

EditorNext ==
    \/ \E context \in FabricContexts : ContextLoaded(context)
    \/ handleIframeLoad
    \/ handleIframeError
    \/ \E origin \in MessageOrigins, data \in MessageData : handleMessage(origin, data)

EditorSpec == Init /\ [][EditorNext]_vars

----------------------------------------------------------------------------
(* Properties of the preview lifecycle (checked under PreviewSpec) *)

\* C1: in every reachable state at most one handle is created and not yet released.
C1_AtMostOneLiveHandle == Cardinality(Live) <= 1

\* C2: before teardown every created-and-unreleased handle is the one stored in the
\* preview, and a fetch completion that replaces a stored handle has released it.
C2_NoOrphanedHandle ==
    /\ mounted => \A h \in Live : BlobToRevoke(state) = h
    /\ (lastOp.op \in {"selectSuccess", "selectFailure"} /\ lastOp.replaced # NoHandle)
            => revokes[lastOp.replaced] >= 1

\* C3: teardown releases exactly the handle the preview holds: that handle when the
\* preview is ready, nothing when it is idle or loading.
C3_TeardownReleasesHeldHandle ==
    lastOp.op = "unmount" => lastOp.released = lastOp.held

\* C4: no handle is released more than once, and only created handles are released.
C4_NoDoubleRelease ==
    \A h \in Handles : revokes[h] <= 1 /\ (revokes[h] = 1 => h <= created)

\* A second select released the first handle, a second handle was installed and
\* closed, and the component was then torn down.
C4_Witness ==
    /\ ~mounted
    /\ \E h1, h2 \in Handles : h1 # h2 /\ revokes[h1] = 1 /\ revokes[h2] = 1

\* The file passed to the most recent selectFile call that reached its fetch.
MostRecentSelect == selects[CHOOSE s \in Started : \A t \in Started : t <= s].file

\* C15: a non-null preview shows the file of the most recent select, whatever the
\* order in which the fetches of overlapping selects complete.
C15_PreviewShowsMostRecentSelect ==
    state.selectedFile # NoPreview =>
        Started # {} /\ state.selectedFile.file = MostRecentSelect

\* C16: the step in which selectFile(file) starts its fetch, with an initialised
\* client, leaves the preview {file, no handle, loading, no error}, and releases in
\* that same step the handle the previous preview held, if it held one, also when
\* the previous preview was for the same file.
C16_SelectResetsPreview ==
    [][\A s \in DOMAIN selects :
        (selects[s].pc = "idle" /\ selects'[s].pc = "fetch") =>
            /\ clientRef
            /\ state'.selectedFile = [file |-> selects'[s].file, blobUrl |-> NoHandle,
                                      loading |-> TRUE, error |-> Null]
            /\ HasBlob(state) =>
                  revokes'[state.selectedFile.blobUrl]
                      = revokes[state.selectedFile.blobUrl] + 1]_vars

\* A file whose preview was ready has just been selected again: the only file ever
\* selected is this one, and the handle of its earlier preview was released.
C16_Witness ==
    /\ lastOp.op = "select"
    /\ lastOp.released # NoHandle
    /\ revokes[lastOp.released] = 1
    /\ \A s \in Started : selects[s].file = lastOp.file
    /\ state.selectedFile.loading /\ state.selectedFile.blobUrl = NoHandle

\* C17: a closePreview step sets the preview to null; it releases the handle of the
\* preview when there is one, and releases nothing when the preview is null,
\* loading or in error.
C17_CloseReleasesAndClears ==
    [][lastOp'.op = "close" =>
        /\ state'.selectedFile = NoPreview
        /\ revokes' = IF HasBlob(state)
                      THEN [revokes EXCEPT ![state.selectedFile.blobUrl] = @ + 1]
                      ELSE revokes]_vars

\* A ready preview has just been closed: its handle is released once and the preview
\* is null.
C17_Witness ==
    /\ lastOp.op = "close"
    /\ lastOp.released # NoHandle
    /\ revokes[lastOp.released] = 1
    /\ state.selectedFile = NoPreview

\* C18: the step that handles a failed fetch or decode of selectFile(file) creates no
\* handle and, while the hook is mounted, leaves the preview {file, no handle, not
\* loading, a non-null derived message}.
C18_FailedSelectShowsError ==
    [][lastOp'.op = "selectFailure" =>
        /\ created' = created
        /\ mounted =>
            /\ state'.selectedFile # NoPreview
            /\ state'.selectedFile.file = lastOp'.file
            /\ state'.selectedFile.blobUrl = NoHandle
            /\ ~state'.selectedFile.loading
            /\ state'.selectedFile.error # Null
            /\ StartsWith(state'.selectedFile.error, "Failed to load file: ")]_vars

\* The only select made has just failed: the preview is in error for its file and no
\* handle was ever created.
C18_Witness ==
    /\ lastOp.op = "selectFailure"
    /\ mounted
    /\ Cardinality(Started) = 1
    /\ created = 0
    /\ state.selectedFile # NoPreview
    /\ state.selectedFile.error # Null
    /\ state.selectedFile.file = lastOp.file

\* The statuses of a non-null preview, as the view derives them from its fields.
StatusLoading(p) == p.loading
StatusReady(p) == ~p.loading /\ p.error = Null /\ p.blobUrl # NoHandle
StatusError(p) == ~p.loading /\ p.error # Null

\* C19: a non-null preview is in exactly one of the statuses loading, ready, error;
\* it has a handle only when ready (not loading, no error) and an error message only
\* when in error (not loading, no handle).
C19_ExactlyOneStatus ==
    state.selectedFile # NoPreview =>
        LET p == state.selectedFile IN
        /\ Cardinality({ t \in {"loading", "ready", "error"} :
                \/ t = "loading" /\ StatusLoading(p)
                \/ t = "ready" /\ StatusReady(p)
                \/ t = "error" /\ StatusError(p) }) = 1
        /\ p.blobUrl # NoHandle => ~p.loading /\ p.error = Null
        /\ p.error # Null => ~p.loading /\ p.blobUrl = NoHandle

\* A preview is ready with a handle after an earlier select ended in error.
C19_Witness ==
    /\ lastOp.op = "selectSuccess"
    /\ HasBlob(state)
    /\ StatusReady(state.selectedFile)
    /\ Cardinality({ s \in Started : selects[s].pc = "done" }) >= 2
    /\ created = 1

\* C29: once closed, the preview stays null until the next select: a fetch that
\* settles while the preview is null, with success or with failure, leaves it null
\* and leaves no handle live that was not live before.
C29_ClosedPreviewStaysNull ==
    [][(state.selectedFile = NoPreview
            /\ lastOp'.op \in {"selectSuccess", "selectFailure"}) =>
        /\ state'.selectedFile = NoPreview
        /\ { h \in 1..created' : revokes'[h] = 0 } \subseteq Live]_vars

\* C30: a fetch that was in flight at teardown and settles afterwards leaves nothing
\* behind: the step in which it settles adds no handle to the created and unreleased
\* ones, so they are empty after the last such fetch if they were empty at teardown.
C30_NoHandleAfterTeardown ==
    [][(~mounted /\ lastOp'.op \in {"selectSuccess", "selectFailure"}) =>
        { h \in 1..created' : revokes'[h] = 0 } \subseteq Live]_vars

----------------------------------------------------------------------------
(* Properties of the catalog build (checked under CatalogSpec) *)

RECURSIVE ListedRecords(_, _)
\* The records of the containers of a build whose listing returned, in order, up to
\* container n.
ListedRecords(bld, n) ==
    IF n = 0 THEN <<>>
    ELSE ListedRecords(bld, n - 1)
            \o (IF bld.results[n].ok
                THEN FlattenPaths(bld.workspaceId, bld.lakehouses[n], bld.results[n].paths)
                ELSE <<>>)

\* C5: once containers are discovered, a build lists every container and commits,
\* whichever listings fail; what it commits is exactly the records of the containers
\* whose listing returned; a listing failure leaves the top-level error alone and
\* never takes the failure path.
C5_PartialFailureTolerated ==
    /\ \A b \in DOMAIN builds :
        LET bld == builds[b] IN
        bld.lakehouses # <<>> =>
            /\ bld.allFiles = ListedRecords(bld, Len(bld.results))
            /\ \/ bld.pc = "getPathMetadata" /\ Len(bld.results) < Len(bld.lakehouses)
               \/ bld.outcome = "commit" /\ Len(bld.results) = Len(bld.lakehouses)
    /\ lastOp.op = "commit" => state.files = ListedRecords(builds[lastOp.b],
                                                Len(builds[lastOp.b].lakehouses))
    /\ (lastOp.op \in {"containerDone", "commit"} /\ lastOp.skipped)
            => state.error = lastOp.before.error

\* A build has just committed with its first container failed and its second listed.
C5_Witness ==
    /\ lastOp.op = "commit"
    /\ LET bld == builds[lastOp.b]
       IN /\ Len(bld.results) = 2
          /\ ~bld.results[1].ok /\ bld.results[2].ok
          /\ state.files # <<>>

\* C6: right after a build commits, the state shows that build's files and workspace,
\* loading = false and error = null.
C6_CommitState ==
    lastOp.op = "commit" =>
        /\ state.files = builds[lastOp.b].allFiles
        /\ state.workspaceId = builds[lastOp.b].workspaceId
        /\ state.loading = FALSE
        /\ state.error = Null

\* C7 as stated: right after a build's top-level failure, error is a non-null message,
\* loading = false, and files and workspaceId are what they were when the build started.
C7_FailureKeepsFilesFromBuildStart ==
    lastOp.op = "failed" =>
        /\ state.error # Null
        /\ state.loading = FALSE
        /\ state.files = builds[lastOp.b].startFiles
        /\ state.workspaceId = builds[lastOp.b].startWorkspaceId

\* C7 amended: right after a build's top-level failure, error is a non-null message,
\* loading = false, and files and workspaceId are what they were just before the
\* failure was handled.
C7_FailureKeepsPriorFiles ==
    lastOp.op = "failed" =>
        /\ state.error # Null
        /\ state.loading = FALSE
        /\ state.files = lastOp.before.files
        /\ state.workspaceId = lastOp.before.workspaceId

\* A build has just failed at the top level while a committed listing is on display.
C7_Witness ==
    /\ lastOp.op = "failed"
    /\ state.files # <<>>
    /\ state.workspaceId # Null

\* C8: a build goes past workspace resolution only with a workspace id; one left
\* without an id ends with the "No workspace found" message and loading = false,
\* has issued no item or file listing call, and leaves files and workspaceId alone.
C8_NoWorkspace ==
    /\ \A b \in DOMAIN builds :
        LET bld == builds[b] IN
        /\ (bld.workspaces # <<>> /\ FirstWorkspace(bld.workspaces[1]) = Null)
                => bld.outcome = "noWorkspace"
        /\ bld.outcome = "noWorkspace"
                => /\ bld.itemWorkspaceId = Null
                   /\ bld.workspaces # <<>> /\ FirstWorkspace(bld.workspaces[1]) = Null
                   /\ bld.calls.getAllItems = 0
                   /\ bld.calls.getPathMetadata = 0
    /\ lastOp.op = "noWorkspace" =>
        /\ state.error = NoWorkspaceMessage
        /\ state.loading = FALSE
        /\ state.files = lastOp.before.files
        /\ state.workspaceId = lastOp.before.workspaceId

\* A build with an item id has just ended without a workspace while a committed
\* listing is on display.
C8_Witness ==
    /\ lastOp.op = "noWorkspace"
    /\ builds[lastOp.b].hasItem
    /\ state.files # <<>>

HasLakehouse(allItems) == \E n \in DOMAIN allItems : allItems[n].type = "Lakehouse"

\* C9: a build whose item listing holds no Lakehouse ends with files = [], the
\* create-a-Lakehouse message and loading = false, and has issued no file listing call.
C9_NoLakehouse ==
    /\ \A b \in DOMAIN builds :
        LET bld == builds[b] IN
        /\ (bld.allItems # <<>> /\ ~HasLakehouse(bld.allItems[1]))
                => bld.outcome = "noLakehouse"
        /\ bld.outcome = "noLakehouse"
                => /\ bld.allItems # <<>> /\ ~HasLakehouse(bld.allItems[1])
                   /\ bld.calls.getPathMetadata = 0
    /\ lastOp.op = "noLakehouse" =>
        /\ state.files = <<>>
        /\ state.error = NoLakehouseMessage
        /\ state.loading = FALSE

\* A build has just ended without a Lakehouse, discarding a committed listing.
C9_Witness ==
    /\ lastOp.op = "noLakehouse"
    /\ lastOp.before.files # <<>>
    /\ state.files = <<>>

\* C10: with an item id, a resolution that throws or carries no workspace id is
\* followed by one request of the accessible-workspace list, whose first entry
\* becomes the workspace the items are listed in; a resolution that carries an id
\* is followed by the item listing of that id with no request of the list.
C10_ItemResolutionFallback ==
    /\ \A b \in DOMAIN builds :
        LET bld == builds[b] IN
        (bld.hasItem /\ bld.pc # "getItem") =>
            IF bld.itemWorkspaceId = Null
            THEN /\ bld.calls.getAllWorkspaces = 1
                 /\ (bld.workspaces # <<>> /\ Len(bld.workspaces[1]) > 0
                        /\ bld.workspaces[1][1].id # "")
                        => /\ bld.workspaceId = bld.workspaces[1][1].id
                           /\ bld.calls.getAllItems = 1
            ELSE /\ bld.calls.getAllWorkspaces = 0
                 /\ bld.workspaceId = bld.itemWorkspaceId
                 /\ bld.calls.getAllItems = 1
    /\ lastOp.op = "getItemThrows" =>
        /\ builds[lastOp.b].pc = "getAllWorkspaces"
        /\ builds[lastOp.b].outcome = "running"
        /\ state = lastOp.before

\* A build whose item resolution failed has listed the items of the first accessible
\* workspace and found containers.
C10_Witness ==
    \E b \in DOMAIN builds :
        /\ builds[b].hasItem /\ builds[b].itemWorkspaceId = Null
        /\ builds[b].workspaces # <<>>
        /\ builds[b].workspaceId = "ws1"
        /\ builds[b].lakehouses # <<>>

\* C11: a build that commits after a later-started build has committed still
\* installs its own files and workspace: nothing cancels or discards it.
C11_EarlierBuildCommitsLast ==
    (lastOp.op = "commit"
        /\ \E b2 \in DOMAIN builds : b2 > lastOp.b /\ builds[b2].outcome = "commit")
    => /\ state.files = builds[lastOp.b].allFiles
       /\ state.workspaceId = builds[lastOp.b].workspaceId

\* Two builds overlapped, the second committed first, the first has just committed,
\* and the state shows the first build's files and workspace, not the second's.
C11_Witness ==
    /\ Len(builds) = 2
    /\ lastOp.op = "commit" /\ lastOp.b = 1
    /\ builds[2].outcome = "commit" /\ builds[2].startFiles = <<>>
    /\ state.files = builds[1].allFiles /\ state.files # builds[2].allFiles
    /\ state.workspaceId = builds[1].workspaceId
    /\ state.workspaceId # builds[2].workspaceId

\* C12: files is always the empty list or the complete list of one build that has
\* attempted every one of its containers; never part of a build or a mix of two.
C12_FilesReplacedAsAWhole ==
    \/ state.files = <<>>
    \/ \E b \in DOMAIN builds :
        /\ builds[b].outcome = "commit"
        /\ Len(builds[b].results) = Len(builds[b].lakehouses)
        /\ state.files = ListedRecords(builds[b], Len(builds[b].lakehouses))

\* A committed listing is on display while another build holds the records of only
\* its first container.
C12_Witness ==
    /\ state.files # <<>>
    /\ \E b \in DOMAIN builds :
        /\ builds[b].pc = "getPathMetadata"
        /\ builds[b].allFiles # <<>>
        /\ builds[b].allFiles # state.files

InFlight == { b \in DOMAIN builds : builds[b].pc # "done" }

\* C13: loading = true only while some build is in flight.
C13_LoadingOnlyDuringBuild == state.loading => InFlight # {}

\* A build has ended and a later one is in flight with loading = true.
C13_Witness ==
    /\ state.loading
    /\ \E b \in DOMAIN builds : builds[b].pc = "done"
    /\ InFlight # {}

\* C31: loading = true whenever at least one build is in flight, also when two
\* builds overlap and one of them has already ended.
C31_LoadingWhileBuildInFlight == InFlight # {} => state.loading

----------------------------------------------------------------------------
(* Properties of builds and selects together (HookSpec, FairHookSpec) *)

PreviewLoading == state.selectedFile # NoPreview /\ state.selectedFile.loading

\* The steps of loadFiles, and the steps of selectFile and closePreview.
BuildOps ==
    {"loadNoClient", "loadStart", "getItemReturns", "getItemThrows", "noWorkspace",
     "getAllWorkspacesReturns", "failed", "noLakehouse", "getAllItemsReturns",
     "containerDone", "commit"}

PreviewOps == {"selectNoClient", "select", "selectSuccess", "selectFailure", "close"}

\* C20: no step of a build changes the preview or the search query or releases a
\* handle, and no step of a select, a close or a fetch completion changes files,
\* workspaceId, loading, error or the search query.
C20_DisjointWriteSets ==
    [][/\ lastOp'.op \in BuildOps =>
            /\ state'.selectedFile = state.selectedFile
            /\ state'.searchQuery = state.searchQuery
            /\ revokes' = revokes
       /\ lastOp'.op \in PreviewOps =>
            /\ state'.files = state.files
            /\ state'.workspaceId = state.workspaceId
            /\ state'.loading = state.loading
            /\ state'.error = state.error
            /\ state'.searchQuery = state.searchQuery]_vars

\* A build has just committed a listing while a preview holds a handle.
C20_Witness ==
    /\ lastOp.op = "commit"
    /\ state.files # <<>>
    /\ HasBlob(state)
    /\ Live = {state.selectedFile.blobUrl}

\* No build is in flight, no fetch is pending, and neither loading flag is set.
Settled ==
    /\ InFlight = {}
    /\ \A s \in DOMAIN selects : selects[s].pc # "fetch"
    /\ ~state.loading
    /\ ~PreviewLoading

\* C14: when awaited external calls eventually return or fail, every started build
\* ends (commit, early termination or failure path) and loading ends false, every
\* started fetch settles, and right after a fetch settles, with success or with
\* failure, the preview is not in the loading status.
C14_EverythingSettles ==
    /\ <>[]Settled
    /\ [](lastOp.op \in {"selectSuccess", "selectFailure"} => ~PreviewLoading)

\* A build has ended on the failure path and a select has ended with a failed fetch.
C14_Witness ==
    /\ \E b \in DOMAIN builds : builds[b].outcome = "failed"
    /\ \E s \in DOMAIN selects : selects[s].pc = "done"
    /\ state.selectedFile # NoPreview /\ state.selectedFile.error # Null
    /\ ~state.loading /\ state.error # Null

----------------------------------------------------------------------------
(* Properties of the records a build derives from the listings (ListingSpec) *)

\* C21: the files a build has just committed hold no two records with equal fullPath,
\* whatever the listings were (repeated entry names, names without the container id).
C21_UniqueFullPath ==
    lastOp.op = "commit" =>
        \A i, j \in 1..Len(state.files) :
            state.files[i].fullPath = state.files[j].fullPath => i = j

\* An entry the listing flags as a directory: boolean true or the string "true".
FlaggedDirectory(p) == p.isDirectory = JsBool(TRUE) \/ p.isDirectory = JsStr("true")

NotFlagged(p) == ~FlaggedDirectory(p)

\* The containers of a build whose listing has returned.
ListedContainers(bld) == { n \in 1..Len(bld.results) : bld.results[n].ok }

RECURSIVE CountNotFlagged(_, _)
\* The number of entries not flagged as directories in the listings of the first n
\* containers of a build.
CountNotFlagged(bld, n) ==
    IF n = 0 THEN 0
    ELSE CountNotFlagged(bld, n - 1) + Len(SelectSeq(bld.results[n].paths, NotFlagged))

\* C22: every record of the files a build has just committed is the record of a
\* listing entry that is not flagged as a directory, and there is one record per
\* such entry, so no flagged entry has a record.
C22_NoDirectoryRecords ==
    lastOp.op = "commit" =>
        LET bld == builds[lastOp.b] IN
        /\ Len(state.files) = CountNotFlagged(bld, Len(bld.results))
        /\ \A i \in 1..Len(state.files) :
            \E n \in ListedContainers(bld) :
                \E k \in 1..Len(bld.results[n].paths) :
                    /\ NotFlagged(bld.results[n].paths[k])
                    /\ state.files[i] = ToOneLakeFile(bld.workspaceId, bld.lakehouses[n],
                                                      bld.results[n].paths[k])

\* A build has just committed: its first listing held an entry flagged by boolean and
\* one flagged by string, its second listing a file, and files holds only the file.
C22_Witness ==
    /\ lastOp.op = "commit"
    /\ LET bld == builds[lastOp.b]
       IN /\ Len(bld.results) = 2
          /\ Len(bld.results[1].paths) = 2
          /\ bld.results[1].paths[1].isDirectory = JsBool(TRUE)
          /\ bld.results[1].paths[2].isDirectory = JsStr("true")
          /\ Len(bld.results[2].paths) = 1
    /\ Len(state.files) = 1

\* The last "/"-separated segment of a path ("" when the path ends with "/").
FinalSegment(path) ==
    LET slashes == { i \in 1..Len(path) : SubSeq(path, i, i) = "/" }
    IN IF slashes = {} THEN path
       ELSE LET last == CHOOSE i \in slashes : \A j \in slashes : j <= i
            IN SubSeq(path, last + 1, Len(path))

\* C23: in the files a build has just committed, every entry that is not a directory
\* and whose name starts with "{containerId}/Files/" has a record whose relativePath
\* is the name without that prefix, and the name of every record is the last
\* "/"-separated segment of its relativePath.
C23_RelativePathAndName ==
    lastOp.op = "commit" =>
        LET bld == builds[lastOp.b] IN
        /\ \A n \in ListedContainers(bld) :
            \A k \in 1..Len(bld.results[n].paths) :
                LET p == bld.results[n].paths[k]
                    prefix == bld.lakehouses[n].id \o "/Files/"
                IN (NotFlagged(p) /\ StartsWith(p.name, prefix)) =>
                    \E i \in 1..Len(state.files) :
                        /\ state.files[i].lakehouseId = bld.lakehouses[n].id
                        /\ prefix \o state.files[i].relativePath = p.name
        /\ \A i \in 1..Len(state.files) :
            state.files[i].name = FinalSegment(state.files[i].relativePath)

\* Whether Number(raw) is a number (neither an absent nor a malformed length).
Parseable(raw) == ~Number(raw).nan

\* C24: in the files a build has just committed every size is a non-negative integer,
\* and when every listed length is absent or cannot be parsed every size is 0.
C24_SizeNonNegativeInteger ==
    lastOp.op = "commit" =>
        LET bld == builds[lastOp.b] IN
        /\ \A i \in 1..Len(state.files) :
            LET size == state.files[i].size
            IN ~size.nan /\ size.d = 1 /\ size.n >= 0
        /\ (\A n \in ListedContainers(bld) :
                \A k \in 1..Len(bld.results[n].paths) :
                    ~Parseable(bld.results[n].paths[k].contentLength))
             => \A i \in 1..Len(state.files) : state.files[i].size = Num(0, 1)

\* The place of the container with the given id among the containers of a build.
ContainerIndex(bld, id) == CHOOSE n \in 1..Len(bld.lakehouses) : bld.lakehouses[n].id = id

\* C25: the files a build has just committed are in discovery order: the records of
\* an earlier container precede those of a later one, and the records of one
\* container are those of its listing's kept entries, in the order of the listing.
C25_DiscoveryOrder ==
    lastOp.op = "commit" =>
        LET bld == builds[lastOp.b] IN
        /\ \A i, j \in 1..Len(state.files) :
            i < j => ContainerIndex(bld, state.files[i].lakehouseId)
                        <= ContainerIndex(bld, state.files[j].lakehouseId)
        /\ \A n \in ListedContainers(bld) :
            LET OfContainer(f) == f.lakehouseId = bld.lakehouses[n].id
                kept == SelectSeq(bld.results[n].paths, NotFlagged)
            IN SelectSeq(state.files, OfContainer)
                = [k \in 1..Len(kept) |->
                        ToOneLakeFile(bld.workspaceId, bld.lakehouses[n], kept[k])]

\* A build has just committed two different records of its first container followed
\* by a record of its second container.
C25_Witness ==
    /\ lastOp.op = "commit"
    /\ Len(state.files) = 3
    /\ state.files[1].lakehouseId = "L1" /\ state.files[2].lakehouseId = "L1"
    /\ state.files[1].fullPath # state.files[2].fullPath
    /\ state.files[3].lakehouseId = "L2"

----------------------------------------------------------------------------
(* Properties of the search query and of clearError *)

\* The places in files of the records whose name or container name, in lower case,
\* contains the query in lower case.
MatchingPlaces(st) ==
    { i \in 1..Len(st.files) :
        \/ Includes(ToLowerCase(st.files[i].name), ToLowerCase(st.searchQuery))
        \/ Includes(ToLowerCase(st.files[i].lakehouseName), ToLowerCase(st.searchQuery)) }

\* The records at those places, in the order of files.
MatchingSubsequence(st) ==
    LET places == MatchingPlaces(st)
    IN [k \in 1..Cardinality(places) |->
            st.files[CHOOSE i \in places : Cardinality({ j \in places : j <= i }) = k]]

\* C26: the visible list is files when the query is empty and otherwise the
\* subsequence of files, in order, of the records whose name or container name
\* contains the query without regard to case; right after the query is set to ""
\* the visible list is files again.
C26_VisibleFiles ==
    /\ state.searchQuery = "" => filteredFiles(state) = state.files
    /\ state.searchQuery # "" => filteredFiles(state) = MatchingSubsequence(state)
    /\ (lastOp.op = "setSearchQuery" /\ lastOp.query = "")
            => filteredFiles(state) = state.files

\* The query has just been set back to "" over a committed listing of two containers,
\* after a query that showed only the records of the second.
C26_Witness ==
    /\ lastOp.op = "setSearchQuery"
    /\ lastOp.query = ""
    /\ lastOp.before.searchQuery = "lake2"
    /\ Len(state.files) = 4
    /\ Len(filteredFiles(lastOp.before)) = 2
    /\ filteredFiles(lastOp.before)[1] = state.files[3]
    /\ filteredFiles(state) = state.files

\* C27: a setSearchQuery(q) step changes searchQuery to q and nothing else: files,
\* preview, loading, error and workspaceId keep their values, no handle is created or
\* released, and no build or fetch starts or advances.
C27_SetSearchQueryFrame ==
    [][lastOp'.op = "setSearchQuery" =>
        /\ state' = [state EXCEPT !.searchQuery = lastOp'.query]
        /\ UNCHANGED <<created, revokes, builds, selects>>]_vars

\* The query has just been changed while a build and a fetch were in flight.
C27_Witness ==
    /\ lastOp.op = "setSearchQuery"
    /\ state.searchQuery # lastOp.before.searchQuery
    /\ state.searchQuery = "DOC"
    /\ InFlight # {}
    /\ \E s \in DOMAIN selects : selects[s].pc = "fetch"
    /\ state.loading /\ PreviewLoading

\* C28: a clearError step sets the top-level error to null and changes nothing else:
\* files, preview, loading, workspaceId and searchQuery keep their values and no
\* build starts or advances.
C28_ClearErrorFrame ==
    [][lastOp'.op = "clearError" =>
        /\ state' = [state EXCEPT !.error = Null]
        /\ state'.error = Null
        /\ UNCHANGED <<created, revokes, builds, selects>>]_vars

\* The error of a build that has ended has just been cleared; the build has not been
\* started again.
C28_Witness ==
    /\ lastOp.op = "clearError"
    /\ lastOp.before.error # Null
    /\ state.error = Null
    /\ Len(builds) = 1 /\ InFlight = {}
    /\ ~state.loading

----------------------------------------------------------------------------
(* Properties of the embedding editor (EditorSpec) *)

\* The host of an origin "scheme://host" or "scheme://host:port".
HostOf(origin) ==
    LET starts == { i \in 1..(Len(origin) - 2) : SubSeq(origin, i, i + 2) = "://" }
        rest == IF starts = {} THEN origin
                ELSE Substring(origin, (CHOOSE i \in starts : \A j \in starts : i <= j) + 2)
        colons == { i \in 1..Len(rest) : SubSeq(rest, i, i) = ":" }
    IN IF colons = {} THEN rest
       ELSE SubSeq(rest, 1, (CHOOSE i \in colons : \A j \in colons : i <= j) - 1)

EndsWith(s, suffix) ==
    Len(s) >= Len(suffix) /\ SubSeq(s, Len(s) - Len(suffix) + 1, Len(s)) = suffix

\* The origin is intuigence.ai or a host under it, localhost, or 127.0.0.1.
TrustedOrigin(origin) ==
    LET host == HostOf(origin)
    IN \/ host \in { "intuigence.ai", "localhost", "127.0.0.1" }
       \/ EndsWith(host, ".intuigence.ai")

\* C32: a message whose origin is not an intuigence.ai host, localhost or 127.0.0.1
\* leaves the editor as it was (appReady, error, context, loading) and posts nothing
\* to the iframe; handleMessage acts only on messages from those origins.
C32_OnlyTrustedOriginsAct ==
    (lastOp.op = "message" /\ ~TrustedOrigin(lastOp.origin)) =>
        /\ editor.appReady = lastOp.before.appReady
        /\ editor.error = lastOp.before.error
        /\ editor.fabricContext = lastOp.before.fabricContext
        /\ editor.isLoading = lastOp.before.isLoading
        /\ editor.posted = lastOp.before.posted

====
